---- MODULE Spec2Model ----
(***************************************************************************)
(* A model of the scalar autograd engine (engine.py: class Value), of the  *)
(* network modules built on it (nn.py) and of the training loop (main.py). *)
(*                                                                         *)
(* Value objects live in `heap`, a sequence of node records; a node is     *)
(* referred to by its index.  The fields data, grad, prev and op are the   *)
(* attributes of Value; the fields a, b and p are the variables captured   *)
(* by the node's _backward closure (self, other, and the exponent).        *)
(*                                                                         *)
(* Numbers: data and grad are modelled as exact integers.  The field ty    *)
(* keeps the Python type of data ("int", "float" or "str"), because the    *)
(* arithmetic of Python depends on it.  A float is modelled only where its *)
(* value is a whole number; an operation whose result would not be a whole *)
(* number within MaxAbs is outside the model (the guards leave it out).    *)
(***************************************************************************)
EXTENDS Integers, Sequences, FiniteSets, TLC

\* ---------------------------------------------------------------- bounds

\* Spec: operations are called while fewer than MaxNodes Values exist.
MaxNodes == 3
\* SpecGrad: the largest number of Values in a graph.
GradNodes == 4
\* The largest magnitude of a data value the model follows.
MaxAbs == 16
\* The largest number of backward() calls in one behaviour of Spec.
MaxPasses == 1
\* The largest number of backward() calls in one behaviour of SpecGrad.
GradPasses == 2

\* SpecTrain: the iterations of the training loop (main.py has 100), and the
\* largest magnitude of a parameter with which an iteration is followed.
Epochs == 2
TrainMaxAbs == 20
\* The draws of random.uniform(-1, 1) that are followed, in the order the
\* weights are made: 8 for the first layer and 4 for the second.
Draws ==
  { << 1, -1,  1,  0,  0,  1, -1,  1,  0,  0,  0,  1>>,
    <<-1,  1, -1,  1, -1,  1, -1,  1,  0,  1,  1, -1>>,
    <<-1,  0, -1,  0, -1,  1,  0,  0,  1, -1,  0,  0>>,
    << 0,  0,  0,  0,  0,  0,  0,  0,  0,  0,  0,  0>>,
    << 1,  1,  1,  1,  1,  1,  1,  1,  1,  1,  1,  1>> }

\* The values a client gives to Value(...): a negative, zero and positive
\* int, and a float.
LeafInputs ==
  { [v |-> -1, ty |-> "int"], [v |-> 0, ty |-> "int"],
    [v |-> 2, ty |-> "float"] }
\* The leaves of SpecGrad.
GradInputs == { [v |-> -1, ty |-> "int"], [v |-> 0, ty |-> "int"],
                [v |-> 2, ty |-> "int"] }
\* Raw Python operands given in place of a Value: numbers and a string.
RawNums == { [k |-> "num", v |-> 1, ty |-> "int", s |-> <<>>] }
RawStrs == { [k |-> "str", v |-> 0, ty |-> "str", s |-> <<"a">>] }
\* The constant exponents given to **.
Exponents == {0, 2}

Abs(x) == IF x < 0 THEN -x ELSE x

\* Body of v, with v evaluated once: the binding of a name to one result.
Let(v, Body(_)) == CHOOSE r \in {Body(x) : x \in {v}} : TRUE

\* ------------------------------------------------------- Python arithmetic

isNum(ty) == ty \in {"int", "float"}

\* The type of x + y and of x * y for two numbers.
numTy(t1, t2) == IF t1 = "float" \/ t2 = "float" THEN "float" ELSE "int"

RECURSIVE ipow(_, _)
\* x ** e for an exponent e >= 0.
ipow(x, e) == IF e = 0 THEN 1 ELSE x * ipow(x, e - 1)

\* x ** e raises ZeroDivisionError: zero to a negative power.
powRaises(x, e) == e < 0 /\ x = 0

\* x ** e is a whole number (given that it does not raise).
powWhole(x, e) == e >= 0 \/ x \in {1, -1}

\* x ** e where it is a whole number.
pyPow(x, e) == IF e >= 0 THEN ipow(x, e) ELSE ipow(x, -e)

\* The type of x ** e: a negative exponent always gives a float.
powTy(ty, e) == IF e < 0 THEN "float" ELSE ty

RECURSIVE strRep(_, _)
\* k * s for a str s: s repeated k times, the empty string when k <= 0.
strRep(s, k) == IF k <= 0 THEN <<>> ELSE s \o strRep(s, k - 1)

\* ------------------------------------------------------------------ Value

VARIABLES
  heap,    \* the Value objects alive, by index
  pc,      \* "idle"; "backward" inside the loop of Value.backward; "raised"
           \* when an exception has ended the program
  root,    \* the node backward() was called on (0: none)
  topo,    \* the list topo of Value.backward
  idx,     \* the position in topo of the next _backward to call (0: done)
  called,  \* the nodes whose _backward was called in this pass, in order
  pre,     \* the grad of every node when the pass began
  passes,  \* the number of backward() calls so far
  last,    \* the last operation: its name, operand kind, heap size before,
           \* error and number of Values made
  train    \* the training loop of main.py: iteration k, the statement it is
           \* at, the next pair d of data, the node total_loss, and whether
           \* zero_grad found a grad

vars == <<heap, pc, root, topo, idx, called, pre, passes, last, train>>

\* Value.__init__: grad is 0, _backward does nothing, _prev is set(_children).
Value(data, ty, s, children, op, a, b, p) ==
  [data |-> data, ty |-> ty, s |-> s, grad |-> 0, prev |-> children,
   op |-> op, a |-> a, b |-> b, p |-> p]

Leaf(in) == Value(in.v, in.ty, <<>>, {}, "", 0, 0, 0)

\* Not an exception of the program: the marker of a result that is not a
\* whole number, which the model does not follow.
NotWhole == "not a whole number"

\* The result of an operation: the heap after it, the node returned, the
\* exception raised ("" for none) and the number of Value objects it made.
Ok(h, out, n) == [h |-> h, out |-> out, err |-> "", made |-> n]
Raise(h, e, n) == [h |-> h, out |-> 0, err |-> e, made |-> n]

NodeRef(i) == [k |-> "node", v |-> i, ty |-> "", s |-> <<>>]

\* other = other if isinstance(other, Value) else Value(other)
Lift(h, o) ==
  IF o.k = "node" THEN [h |-> h, id |-> o.v, made |-> 0]
  ELSE [h |-> Append(h, Value(o.v, o.ty, o.s, {}, "", 0, 0, 0)),
        id |-> Len(h) + 1, made |-> 1]

\* Value.__add__.  A str operand is wrapped in a Value and then the sum
\* self.data + other.data raises TypeError; the wrapper is dropped with it.
VAdd(h, a, o) ==
  LET l == Lift(h, o)
      x == l.h[a]
      y == l.h[l.id]
  IN IF y.ty = "str" THEN Raise(h, "TypeError", l.made)
     ELSE Ok(Append(l.h, Value(x.data + y.data, numTy(x.ty, y.ty), <<>>,
                               {a, l.id}, "+", a, l.id, 0)),
             Len(l.h) + 1, l.made + 1)

\* As VMul for two Values, but the rule of the product is run as it is made.
VMulEager(h, a, o) ==
  LET l == Lift(h, o)
      x == l.h[a]
      y == l.h[l.id]
      h1 == [l.h EXCEPT ![a].grad = @ + y.data]
  IN Ok(Append(h1, Value(x.data * y.data, numTy(x.ty, y.ty), <<>>,
                         {a, l.id}, "*", a, l.id, 0)),
        Len(l.h) + 1, l.made + 1)

\* Value.__mul__.  int * str is a str in Python (the string repeated), so an
\* int node times a str gives a node holding a str; float * str raises.
VMul(h, a, o) ==
  LET l == Lift(h, o)
      x == l.h[a]
      y == l.h[l.id]
  IN IF y.ty = "str"
     THEN IF x.ty = "int"
          THEN Ok(Append(l.h, Value(0, "str", strRep(y.s, x.data),
                                    {a, l.id}, "*", a, l.id, 0)),
                  Len(l.h) + 1, l.made + 1)
          ELSE Raise(h, "TypeError", l.made)
     ELSE Ok(Append(l.h, Value(x.data * y.data, numTy(x.ty, y.ty), <<>>,
                               {a, l.id}, "*", a, l.id, 0)),
             Len(l.h) + 1, l.made + 1)

\* Value.__pow__ with an int or float exponent e.
VPow(h, a, e) ==
  LET x == h[a]
  IN IF powRaises(x.data, e) THEN Raise(h, "ZeroDivisionError", 0)
     ELSE IF ~powWhole(x.data, e) THEN Raise(h, NotWhole, 0)
     ELSE Ok(Append(h, Value(pyPow(x.data, e), powTy(x.ty, e), <<>>,
                             {a}, "**", a, 0, e)),
             Len(h) + 1, 1)

\* As VPowValue, but the Value is made before the exponent is looked at.
VPowValueLate(h, a, b, e) ==
  Raise(Append(h, Value(0, "int", <<>>, {a, b}, "**", a, b, 0)), e, 1)

\* Value.__pow__ with a Value b as exponent: it raises e before any Value is
\* made (the assert; or, without asserts, the power self.data**other).
VPowValue(h, a, b, e) == Raise(h, e, 0)

\* Value.relu: 0 if self.data < 0 else self.data.
VRelu(h, a) ==
  LET x == h[a]
  IN Ok(Append(h, Value(IF x.data < 0 THEN 0 ELSE x.data,
                        IF x.data < 0 THEN "int" ELSE x.ty, <<>>,
                        {a}, "ReLU", a, 0, 0)),
        Len(h) + 1, 1)

\* As VNeg, but in one Value of its own.
VNegDirect(h, a) ==
  Ok(Append(h, Value(-h[a].data, h[a].ty, <<>>, {a}, "neg", a, 0, 0)),
     Len(h) + 1, 1)

\* Value.__neg__: self * -1.
VNeg(h, a) == VMul(h, a, [k |-> "num", v |-> -1, ty |-> "int", s |-> <<>>])

RawNum(v, ty) == [k |-> "num", v |-> v, ty |-> ty, s |-> <<>>]

\* Value.__sub__: self + (-other).  -other is Value.__neg__ for a Value, the
\* negated number for a number, and raises TypeError for a str.
VSub(h, a, o) ==
  IF o.k = "str" THEN Raise(h, "TypeError", 0)
  ELSE IF o.k = "num" THEN VAdd(h, a, RawNum(-o.v, o.ty))
  ELSE LET n == VNeg(h, o.v)
           r == VAdd(n.h, a, NodeRef(n.out))
       IN Ok(r.h, r.out, n.made + r.made)

\* Value.__truediv__: self * other**-1.  other**-1 is Value.__pow__ for a
\* Value and Python's own power for a number (a float, or ZeroDivisionError
\* for 0); a str to a power raises TypeError.
VDiv(h, a, o) ==
  IF o.k = "str" THEN Raise(h, "TypeError", 0)
  ELSE IF o.k = "num"
  THEN IF powRaises(o.v, -1) THEN Raise(h, "ZeroDivisionError", 0)
       ELSE IF ~powWhole(o.v, -1) THEN Raise(h, NotWhole, 0)
       ELSE VMul(h, a, RawNum(pyPow(o.v, -1), "float"))
  ELSE LET q == VPow(h, o.v, -1)
           r == VMul(q.h, a, NodeRef(q.out))
       IN IF q.err # "" THEN q ELSE Ok(r.h, r.out, q.made + r.made)

\* Value.__rtruediv__: other * self**-1, for a number other.  The product of
\* a number and a Value is Value.__rmul__, that is self**-1 * other.
VRDiv(h, a, o) ==
  LET q == VPow(h, a, -1)
      r == VMul(q.h, q.out, o)
  IN IF q.err # "" THEN q ELSE Ok(r.h, r.out, q.made + r.made)

\* ---------------------------------------------------------- Value.backward

SetMin(S) == CHOOSE x \in S : \A y \in S : x <= y
SetMax(S) == CHOOSE x \in S : \A y \in S : x >= y

\* `for child in v._prev`: _prev is a set, whose iteration order Python does
\* not fix.  F is the set of nodes whose two children come in the other order.
ChildSeq(h, F, v) ==
  LET c == h[v].prev
  IN IF c = {} THEN <<>>
     ELSE IF Cardinality(c) = 1 THEN <<SetMin(c)>>
     ELSE IF v \in F THEN <<SetMax(c), SetMin(c)>>
     ELSE <<SetMin(c), SetMax(c)>>

RECURSIVE build_topo(_, _, _, _)
RECURSIVE build_children(_, _, _, _)
\* build_topo(v) of Value.backward; st holds visited and topo as the call
\* finds them.
build_topo(h, F, v, st0) ==
  Let(st0, LAMBDA st :
    IF v \in st.visited THEN st
    ELSE [build_children(h, F, ChildSeq(h, F, v),
                         [st EXCEPT !.visited = @ \cup {v}])
            EXCEPT !.topo = Append(@, v)])
\* The loop over v._prev inside build_topo.
build_children(h, F, cs, st) ==
  IF cs = <<>> THEN st
  ELSE build_children(h, F, Tail(cs), build_topo(h, F, Head(cs), st))

\* topo = []; visited = set(); build_topo(self)
BuildTopo(h, F, r) == build_topo(h, F, r, [visited |-> {}, topo |-> <<>>]).topo

\* other * self.data**(other-1) in the _backward of __pow__.  When the power
\* is not a whole number the exponent is 0 and the product is 0.0.
powLocal(x, e) == IF powWhole(x, e - 1) THEN e * pyPow(x, e - 1) ELSE 0

\* The call v._backward() raises: only the rule of __pow__ can, when
\* self.data**(other-1) is zero to a negative power.
ruleRaises(h, v) == h[v].op = "**" /\ powRaises(h[h[v].a].data, h[v].p - 1)

\* _backward of __add__: self.grad += out.grad; other.grad += out.grad.
addBackward(h, v) ==
  LET h1 == [h EXCEPT ![h[v].a].grad = @ + h[v].grad]
  IN [h1 EXCEPT ![h[v].b].grad = @ + h1[v].grad]

\* _backward of __mul__: self.grad += other.data * out.grad;
\* other.grad += self.data * out.grad.
mulBackward(h, v) ==
  LET h1 == [h EXCEPT ![h[v].a].grad = @ + h[h[v].b].data * h[v].grad]
  IN [h1 EXCEPT ![h[v].b].grad = @ + h1[h[v].a].data * h1[v].grad]

\* _backward of __pow__: self.grad += (other * self.data**(other-1)) * out.grad.
powBackward(h, v) ==
  [h EXCEPT ![h[v].a].grad = @ + powLocal(h[h[v].a].data, h[v].p) * h[v].grad]

\* As reluBackward, but the gate lets a zero output through.
reluBackwardGateZero(h, v) ==
  [h EXCEPT ![h[v].a].grad = @ + (IF h[v].data >= 0 THEN 1 ELSE 0) * h[v].grad]

\* _backward of relu: self.grad += (out.data > 0) * out.grad.
reluBackward(h, v) ==
  [h EXCEPT ![h[v].a].grad = @ + (IF h[v].data > 0 THEN 1 ELSE 0) * h[v].grad]

\* v._backward(): the closure bound when v was made; `lambda: None` for a leaf.
localBackward(h, v) ==
  CASE h[v].op = "+" -> addBackward(h, v)
    [] h[v].op = "*" -> mulBackward(h, v)
    [] h[v].op = "**" -> powBackward(h, v)
    [] h[v].op = "ReLU" -> reluBackward(h, v)
    [] OTHER -> h

\* ------------------------------------------------- the engine, as a machine

NumNodes(h) == {i \in DOMAIN h : isNum(h[i].ty)}
BinNodes(h) == {i \in DOMAIN h : Cardinality(h[i].prev) = 2}
Operands(h) == {NodeRef(i) : i \in NumNodes(h)} \cup RawNums \cup RawStrs

NoCall == [op |-> "", kind |-> "", n0 |-> 0, err |-> "", made |-> 0]
\* No training loop is running.
NoTrain == [k |-> 0, at |-> "", d |-> 0, loss |-> 0, stale |-> FALSE]

Init ==
  /\ heap = <<>>
  /\ pc = "idle"
  /\ root = 0
  /\ topo = <<>>
  /\ idx = 0
  /\ called = <<>>
  /\ pre = <<>>
  /\ passes = 0
  /\ last = NoCall
  /\ train = NoTrain

\* The model follows a result r when it is a whole number within MaxAbs.
Followed(r) ==
  /\ r.err # NotWhole
  /\ \A i \in DOMAIN r.h : Abs(r.h[i].data) <= MaxAbs

\* A call of a constructing operation with result r.  Nothing in the
\* program catches an exception: one that is raised ends the program.
Construct(name, kind, r) ==
  /\ pc = "idle"
  /\ Followed(r)
  /\ heap' = r.h
  /\ last' = [op |-> name, kind |-> kind, n0 |-> Len(heap), err |-> r.err,
              made |-> r.made]
  /\ pc' = IF r.err = "" THEN "idle" ELSE "raised"
  /\ root' = 0 /\ topo' = <<>> /\ idx' = 0 /\ called' = <<>> /\ pre' = <<>>
  /\ UNCHANGED <<passes, train>>

\* Value.backward up to its loop, called on r: build_topo(self), self.grad = 1.
\* Fs holds the iteration orders of the sets _prev that are followed.
BackwardCall(r, Fs) ==
  \E F \in Fs :
    /\ pc = "idle"
    /\ root' = r
    /\ topo' = BuildTopo(heap, F, r)
    /\ idx' = Len(topo')
    /\ called' = <<>>
    /\ pre' = [i \in DOMAIN heap |-> heap[i].grad]
    /\ heap' = [heap EXCEPT ![r].grad = 1]
    /\ passes' = passes + 1
    /\ pc' = "backward"
    /\ last' = [op |-> "backward", kind |-> "none", n0 |-> Len(heap),
                err |-> "", made |-> 0]

\* One turn of `for v in reversed(topo): v._backward()`.  An exception in
\* the call leaves backward() at once.
BackwardStep ==
  /\ pc = "backward"
  /\ LET v == topo[idx]
     IN /\ called' = Append(called, v)
        /\ idx' = idx - 1
        /\ IF ruleRaises(heap, v)
           THEN /\ heap' = heap
                /\ pc' = "raised"
                /\ last' = [last EXCEPT !.err = "ZeroDivisionError"]
           ELSE /\ heap' = localBackward(heap, v)
                /\ pc' = IF idx = 1 THEN "idle" ELSE "backward"
                /\ last' = last
  /\ UNCHANGED <<root, topo, pre, passes, train>>

\* ---- Spec: every operation, called on graphs of fewer than MaxNodes objects

Room == Len(heap) < MaxNodes

\* Value(data) by the client.
NewValue ==
  \E in \in LeafInputs :
    Room /\ Construct("Value", "none",
                      Ok(Append(heap, Leaf(in)), Len(heap) + 1, 1))

Add == \E a \in NumNodes(heap), o \in Operands(heap) :
         Room /\ Construct("add", o.k, VAdd(heap, a, o))

Mul == \E a \in NumNodes(heap), o \in Operands(heap) :
         Room /\ Construct("mul", o.k, VMul(heap, a, o))

Pow == \E a \in NumNodes(heap), e \in Exponents :
         Room /\ Construct("pow", "num", VPow(heap, a, e))

\* self ** other with a Value as exponent: the assert of __pow__ fails; with
\* asserts compiled out (python -O) the power int ** Value raises TypeError.
PowByValue ==
  \E a \in NumNodes(heap), b \in NumNodes(heap),
     e \in {"AssertionError", "TypeError"} :
    Room /\ Construct("pow", "node", VPowValue(heap, a, b, e))

Relu == \E a \in NumNodes(heap) :
          Room /\ Construct("relu", "none", VRelu(heap, a))

Neg == \E a \in NumNodes(heap) :
         Room /\ Construct("neg", "none", VNeg(heap, a))

Sub == \E a \in NumNodes(heap), o \in Operands(heap) :
         Room /\ Construct("sub", o.k, VSub(heap, a, o))

Div == \E a \in NumNodes(heap), o \in Operands(heap) :
         Room /\ Construct("div", o.k, VDiv(heap, a, o))

RDiv == \E a \in NumNodes(heap), o \in RawNums :
          Room /\ Construct("rdiv", o.k, VRDiv(heap, a, o))

Backward ==
  \E r \in NumNodes(heap) :
    /\ Len(heap) <= MaxNodes /\ passes < MaxPasses
    /\ BackwardCall(r, SUBSET BinNodes(heap))
    /\ UNCHANGED train

Next ==
  \/ NewValue
  \/ Add
  \/ Mul
  \/ Pow
  \/ PowByValue
  \/ Relu
  \/ Neg
  \/ Sub
  \/ Div
  \/ RDiv
  \/ Backward
  \/ BackwardStep

Spec == Init /\ [][Next]_vars

\* ---- SpecGrad: graphs of at most GradNodes Values built from Values by
\* +, *, ** and relu, and up to GradPasses calls of backward on any of them

GradRoom(r) == Len(r.h) <= GradNodes

GradValue ==
  \E in \in GradInputs :
    LET r == Ok(Append(heap, Leaf(in)), Len(heap) + 1, 1)
    IN /\ \A i \in DOMAIN heap : heap[i].op = ""
       /\ GradRoom(r) /\ Construct("Value", "none", r)

GradAdd ==
  \E a \in NumNodes(heap), b \in NumNodes(heap) :
    LET r == VAdd(heap, a, NodeRef(b))
    IN GradRoom(r) /\ Construct("add", "node", r)

GradMul ==
  \E a \in NumNodes(heap), b \in NumNodes(heap) :
    LET r == VMul(heap, a, NodeRef(b))
    IN GradRoom(r) /\ Construct("mul", "node", r)

GradPow ==
  \E a \in NumNodes(heap), e \in Exponents :
    LET r == VPow(heap, a, e)
    IN GradRoom(r) /\ Construct("pow", "num", r)

GradRelu ==
  \E a \in NumNodes(heap) :
    LET r == VRelu(heap, a)
    IN GradRoom(r) /\ Construct("relu", "none", r)

GradBackward ==
  \E r \in NumNodes(heap) :
    /\ passes < GradPasses
    /\ BackwardCall(r, SUBSET BinNodes(heap))
    /\ UNCHANGED train

NextGrad ==
  \/ GradValue
  \/ GradAdd
  \/ GradMul
  \/ GradPow
  \/ GradRelu
  \/ GradBackward
  \/ BackwardStep

SpecGrad == Init /\ [][NextGrad]_vars

\* ------------------------------------------------ what the claims speak of

RECURSIVE Reach(_, _)
\* The nodes reachable from r along operand edges.
Reach(h, r) == {r} \cup UNION {Reach(h, c) : c \in h[r].prev}

\* d(x**e)/dx.
powDeriv(x, e) == IF e = 0 THEN 0 ELSE e * pyPow(x, e - 1)

RECURSIVE Deriv(_, _, _)
\* The partial derivative of the value of node u with respect to the value of
\* node n, by the rules of calculus from the leaves up (relu'(x) = 0 at x <= 0).
Deriv(h, u, n) ==
  IF u = n THEN 1
  ELSE CASE h[u].op = "+" -> Deriv(h, h[u].a, n) + Deriv(h, h[u].b, n)
         [] h[u].op = "*" -> Deriv(h, h[u].a, n) * h[h[u].b].data
                             + h[h[u].a].data * Deriv(h, h[u].b, n)
         [] h[u].op = "**" -> powDeriv(h[h[u].a].data, h[u].p)
                              * Deriv(h, h[u].a, n)
         [] h[u].op = "ReLU" -> (IF h[h[u].a].data > 0 THEN 1 ELSE 0)
                                * Deriv(h, h[u].a, n)
         [] OTHER -> 0

RECURSIVE SumOver(_, _)
\* The sum of f[x] over the finite set S.
SumOver(S, f) ==
  IF S = {} THEN 0
  ELSE LET x == CHOOSE y \in S : TRUE IN f[x] + SumOver(S \ {x}, f)

\* What the rule of u adds to the grad of n when u has grad g.
Contribution(h, u, n, g) ==
  CASE h[u].op = "+" -> (IF h[u].a = n THEN g ELSE 0)
                        + (IF h[u].b = n THEN g ELSE 0)
    [] h[u].op = "*" -> (IF h[u].a = n THEN h[h[u].b].data * g ELSE 0)
                        + (IF h[u].b = n THEN h[h[u].a].data * g ELSE 0)
    [] h[u].op = "**" -> IF h[u].a = n
                         THEN powDeriv(h[h[u].a].data, h[u].p) * g ELSE 0
    [] h[u].op = "ReLU" -> IF h[u].a = n /\ h[u].data > 0 THEN g ELSE 0
    [] OTHER -> 0

Range(q) == {q[i] : i \in DOMAIN q}
\* The place of node n in the sequence q of distinct nodes.
Place(q, n) == CHOOSE i \in DOMAIN q : q[i] = n

\* A call of backward() is over: it returned, or an exception left it.
PassOver == last.op = "backward" /\ pc # "backward"
PassReturned == last.op = "backward" /\ pc = "idle"
PassRaised == last.op = "backward" /\ pc = "raised"
FromZero == \A i \in DOMAIN pre : pre[i] = 0

\* C1 as the spec states it: with every grad 0 beforehand, once
\* root.backward() is over the grad of every node reachable from the root is
\* the partial derivative of the root with respect to that node.
C1_GradientIsDerivative ==
  (PassOver /\ FromZero) =>
    \A n \in Reach(heap, root) : heap[n].grad = Deriv(heap, root, n)

\* What holds of the code for C1: the same, for the calls that return.
GradientIsDerivativeOnReturn ==
  (PassReturned /\ FromZero) =>
    \A n \in Reach(heap, root) : heap[n].grad = Deriv(heap, root, n)

\* C8 as the spec states it: once root.backward() is over, the rule of every
\* node reachable from the root was called exactly once, no other rule was
\* called, and every node was called after every reachable node that has it
\* as an operand.
C8_EveryRuleOnceInOrder ==
  PassOver =>
    /\ Range(called) = Reach(heap, root)
    /\ Len(called) = Cardinality(Reach(heap, root))
    /\ \A u \in Reach(heap, root) : \A m \in heap[u].prev :
         Place(called, u) < Place(called, m)

\* What holds of the code for C8: at every moment of a pass no rule has been
\* called twice, only rules of reachable nodes have been called, each after
\* the rule of every reachable user of its node; and a call that returns has
\* called them all.
RulesOnceInOrderSoFar ==
  last.op = "backward" =>
    /\ Range(called) \subseteq Reach(heap, root)
    /\ Len(called) = Cardinality(Range(called))
    /\ \A m \in Range(called) : \A u \in Reach(heap, root) :
         m \in heap[u].prev =>
           u \in Range(called) /\ Place(called, u) < Place(called, m)
    /\ PassReturned => Range(called) = Reach(heap, root)

\* C9 as the spec states it: a call of backward() on a graph that holds
\* residual grads raises no error, leaves the root with grad 1 and every
\* other reachable node with its residual grad plus what the rules of this
\* pass added; and a second pass from the same root gives every leaf a grad
\* that differs from the grad of the first pass.
C9_ResidualPlusContributions ==
  PassOver =>
    /\ last.err = ""
    /\ heap[root].grad = 1
    /\ \A n \in Reach(heap, root) \ {root} :
         heap[n].grad = pre[n]
           + SumOver(Reach(heap, root),
                     [u \in Reach(heap, root) |->
                        Contribution(heap, u, n, heap[u].grad)])
    /\ (\A n \in Reach(heap, root) : pre[n] = Deriv(heap, root, n)) =>
         \A n \in Reach(heap, root) \ {root} :
           heap[n].op = "" => heap[n].grad # pre[n]

\* What holds of the code for C9: the first three parts, for calls that return.
ResidualPlusContributionsOnReturn ==
  PassReturned =>
    /\ heap[root].grad = 1
    /\ \A n \in Reach(heap, root) \ {root} :
         heap[n].grad = pre[n]
           + SumOver(Reach(heap, root),
                     [u \in Reach(heap, root) |->
                        Contribution(heap, u, n, heap[u].grad)])

\* ---- SpecRelu: the expression o = relu(x*w + b) and one o.backward(), for
\* leaves x, w, b drawn from small sets

ReluXs == {-1, 0, 2}
ReluWs == {-3, 1}
ReluBs == {1, 6, 10}

InitRelu ==
  /\ \E x \in ReluXs, w \in ReluWs, b \in ReluBs :
       heap = << Leaf([v |-> x, ty |-> "float"]),
                 Leaf([v |-> w, ty |-> "float"]),
                 Leaf([v |-> b, ty |-> "float"]) >>
  /\ pc = "idle"
  /\ root = 0
  /\ topo = <<>>
  /\ idx = 0
  /\ called = <<>>
  /\ pre = <<>>
  /\ passes = 0
  /\ last = NoCall
  /\ train = NoTrain

\* x * w
ReluMul == /\ Len(heap) = 3
           /\ Construct("mul", "node", VMul(heap, 1, NodeRef(2)))
\* n = x*w + b
ReluAdd == /\ last.op = "mul"
           /\ Construct("add", "node", VAdd(heap, Len(heap), NodeRef(3)))
\* o = n.relu()
ReluRelu == /\ last.op = "add"
            /\ Construct("relu", "none", VRelu(heap, Len(heap)))
\* o.backward()
ReluBackward == /\ last.op = "relu"
                /\ BackwardCall(Len(heap), SUBSET BinNodes(heap))
                /\ UNCHANGED train

NextRelu ==
  \/ ReluMul
  \/ ReluAdd
  \/ ReluRelu
  \/ ReluBackward
  \/ BackwardStep

SpecRelu == InitRelu /\ [][NextRelu]_vars

\* ------------------------------------------------------------------ nn.py

\* In the records of the constructors, h is the heap, k the number of draws
\* of random.uniform taken so far, and draws the draws to come.

RECURSIVE neuronWeights(_, _, _, _, _)
\* self.w = [Value(random.uniform(-1, 1)) for _ in range(nin)]
neuronWeights(h, nin, draws, k, w) ==
  IF Len(w) = nin THEN [h |-> h, k |-> k, w |-> w]
  ELSE neuronWeights(Append(h, Leaf([v |-> draws[k + 1], ty |-> "float"])),
                     nin, draws, k + 1, Append(w, Len(h) + 1))

\* Neuron.__init__: the weights, then self.b = Value(0).
NeuronInit(h, nin, nonlin, draws, k) ==
  Let(neuronWeights(h, nin, draws, k, <<>>), LAMBDA r :
    [h |-> Append(r.h, Leaf([v |-> 0, ty |-> "int"])), k |-> r.k,
     n |-> [w |-> r.w, b |-> Len(r.h) + 1, nonlin |-> nonlin]])

RECURSIVE LayerInit(_, _, _, _, _, _, _)
\* Layer.__init__: self.neurons = [Neuron(nin, **kwargs) for _ in range(nout)]
LayerInit(h, nin, nout, nonlin, draws, k, neurons) ==
  IF Len(neurons) = nout THEN [h |-> h, k |-> k, layer |-> neurons]
  ELSE Let(NeuronInit(h, nin, nonlin, draws, k), LAMBDA r :
         LayerInit(r.h, nin, nout, nonlin, draws, r.k, Append(neurons, r.n)))

RECURSIVE MLPInit(_, _, _, _, _)
\* MLP.__init__: sz = [nin] + nouts, and layer i is
\* Layer(sz[i], sz[i+1], nonlin = i != len(nouts) - 1).
MLPInit(h, sz, draws, k, layers) ==
  IF Len(layers) = Len(sz) - 1 THEN [h |-> h, layers |-> layers]
  ELSE Let(LayerInit(h, sz[Len(layers) + 1], sz[Len(layers) + 2],
                     Len(layers) + 1 # Len(sz) - 1, draws, k, <<>>),
           LAMBDA r : MLPInit(r.h, sz, draws, r.k, Append(layers, r.layer)))

\* Neuron.parameters: self.w + [self.b]
NeuronParameters(n) == Append(n.w, n.b)

RECURSIVE LayerParameters(_)
\* Layer.parameters: [p for n in self.neurons for p in n.parameters()]
LayerParameters(layer) ==
  IF layer = <<>> THEN <<>>
  ELSE NeuronParameters(Head(layer)) \o LayerParameters(Tail(layer))

RECURSIVE MLPParameters(_)
\* MLP.parameters: [p for layer in self.layers for p in layer.parameters()]
MLPParameters(layers) ==
  IF layers = <<>> THEN <<>>
  ELSE LayerParameters(Head(layers)) \o MLPParameters(Tail(layers))

RECURSIVE neuronSum(_, _, _, _, _)
\* sum((wi * xi for wi, xi in zip(self.w, x)), self.b): acc = acc + wi * xi
\* for each pair, from acc = self.b.
neuronSum(h, n, x, i, acc) ==
  IF i > Len(n.w) \/ i > Len(x) THEN [h |-> h, out |-> acc]
  ELSE Let(VMul(h, n.w[i], NodeRef(x[i])), LAMBDA m :
       Let(VAdd(m.h, acc, NodeRef(m.out)), LAMBDA a :
         neuronSum(a.h, n, x, i + 1, a.out)))

\* Neuron.__call__
NeuronCall(h, n, x) ==
  Let(neuronSum(h, n, x, 1, n.b), LAMBDA act :
    IF n.nonlin
    THEN Let(VRelu(act.h, act.out), LAMBDA r : [h |-> r.h, out |-> r.out])
    ELSE act)

RECURSIVE layerOuts(_, _, _, _)
\* out = [n(x) for n in self.neurons]
layerOuts(h, layer, x, out) ==
  IF Len(out) = Len(layer) THEN [h |-> h, out |-> out]
  ELSE Let(NeuronCall(h, layer[Len(out) + 1], x), LAMBDA r :
         layerOuts(r.h, layer, x, Append(out, r.out)))

\* Layer.__call__: out[0] if len(out) == 1 else out.  single tells that the
\* result is one Value and not a list.
LayerCall(h, layer, x) ==
  Let(layerOuts(h, layer, x, <<>>), LAMBDA r :
    [h |-> r.h, out |-> r.out, single |-> Len(r.out) = 1])

RECURSIVE MLPCall(_, _, _)
\* MLP.__call__: for layer in self.layers: x = layer(x).  A layer of one
\* neuron gives a Value, which the zip of a next layer cannot iterate.
MLPCall(h, layers, x) ==
  IF layers = <<>> THEN [h |-> h, out |-> x, err |-> ""]
  ELSE Let(LayerCall(h, Head(layers), x), LAMBDA r :
         IF r.single /\ Tail(layers) # <<>>
         THEN [h |-> r.h, out |-> r.out, err |-> "TypeError"]
         ELSE MLPCall(r.h, Tail(layers), r.out))

\* As zero_grad, but the last parameter is left out.
zero_gradButLast(h, params) ==
  [i \in DOMAIN h |->
     IF \E j \in 1..(Len(params) - 1) : params[j] = i
     THEN [h[i] EXCEPT !.grad = 0] ELSE h[i]]

\* As zero_grad, but nothing is reset.
zero_gradNothing(h, params) == h

\* Module.zero_grad: for p in self.parameters(): p.grad = 0
zero_grad(h, params) ==
  [i \in DOMAIN h |->
     IF i \in Range(params) THEN [h[i] EXCEPT !.grad = 0] ELSE h[i]]

\* ---------------------------------------------------------------- main.py

\* data, and the learning rate.  The model keeps whole numbers, so the step
\* of 0.01 * grad is scaled to LearningRate * grad with LearningRate 1.
TrainData ==
  << [x |-> <<2, 3>>, y |-> 1], [x |-> <<3, -1>>, y |-> -1],
     [x |-> <<1, 1>>, y |-> 1], [x |-> <<2, -2>>, y |-> -1] >>
LearningRate == 1

\* model = MLP(2, [4, 1])
Sizes == <<2, 4, 1>>
Model(draws) == MLPInit(<<>>, Sizes, draws, 0, <<>>)
\* The layers and the parameters are the same nodes whatever is drawn.
Layers == Model([j \in 1..12 |-> 0]).layers
Params == MLPParameters(Layers)

RECURSIVE inputs(_, _, _)
\* x = [Value(xi) for xi in x]
inputs(h, x, out) ==
  IF Len(out) = Len(x) THEN [h |-> h, out |-> out]
  ELSE inputs(Append(h, Leaf([v |-> x[Len(out) + 1], ty |-> "float"])), x,
              Append(out, Len(h) + 1))

\* The body of the loop over data, for the d-th pair; total is total_loss.
\* The last layer has one neuron, so y_pred is one Value.
\*   x = [Value(xi) for xi in x]; y_pred = model(x)
\*   loss = (y_pred - Value(y))**2; total_loss += loss
LossOfPair(h, d, total) ==
  Let(inputs(h, TrainData[d].x, <<>>), LAMBDA x :
  Let(MLPCall(x.h, Layers, x.out), LAMBDA y_pred :
  Let(Append(y_pred.h, Leaf([v |-> TrainData[d].y, ty |-> "float"])), LAMBDA y :
  Let(VSub(y, y_pred.out[1], NodeRef(Len(y))), LAMBDA diff :
  Let(VPow(diff.h, diff.out, 2), LAMBDA loss :
  Let(VAdd(loss.h, total, NodeRef(loss.out)), LAMBDA sum :
    [h |-> sum.h, out |-> sum.out]))))))

\* total_loss = Value(0).  The graph of the iteration before is garbage once
\* its names are bound again; the parameters, made first, stay.
NewTotal(h) == Append(SubSeq(h, 1, Len(Params)), Leaf([v |-> 0, ty |-> "int"]))

\* p.data -= learning_rate * p.grad, for p in model.parameters()
Update(h, params) ==
  [i \in DOMAIN h |->
     IF i \in Range(params)
     THEN [h[i] EXCEPT !.data = @ - LearningRate * h[i].grad, !.ty = "float"]
     ELSE h[i]]

InitTrain ==
  /\ \E draws \in Draws : heap = Model(draws).h
  /\ pc = "idle"
  /\ root = 0
  /\ topo = <<>>
  /\ idx = 0
  /\ called = <<>>
  /\ pre = <<>>
  /\ passes = 0
  /\ last = NoCall
  /\ train = [k |-> 0, at |-> "forward", d |-> 0, loss |-> 0, stale |-> FALSE]

\* Line 22 of iteration k: total_loss = Value(0).  An iteration is followed
\* when every parameter is within TrainMaxAbs.
TrainForward ==
  /\ train.at = "forward" /\ train.k < Epochs /\ pc = "idle"
  /\ \A i \in Range(Params) : Abs(heap[i].data) <= TrainMaxAbs
  /\ heap' = NewTotal(heap)
  /\ train' = [train EXCEPT !.at = "pair", !.d = 1, !.loss = Len(Params) + 1]
  /\ last' = [op |-> "forward", kind |-> "none", n0 |-> Len(heap),
              err |-> "", made |-> 1]
  /\ root' = 0 /\ topo' = <<>> /\ idx' = 0 /\ called' = <<>> /\ pre' = <<>>
  /\ UNCHANGED <<pc, passes>>

\* Lines 23-27 for the next pair of data.
TrainPair ==
  /\ train.at = "pair"
  /\ LET r == LossOfPair(heap, train.d, train.loss)
     IN /\ heap' = r.h
        /\ train' = [train EXCEPT !.d = @ + 1, !.loss = r.out,
                       !.at = IF train.d = Len(TrainData) THEN "zero_grad"
                                ELSE "pair"]
        /\ last' = [op |-> "pair", kind |-> "none", n0 |-> Len(heap),
                    err |-> "", made |-> Len(r.h) - Len(heap)]
  /\ UNCHANGED <<pc, root, topo, idx, called, pre, passes>>

\* model.zero_grad()
TrainZeroGrad ==
  /\ train.at = "zero_grad"
  /\ heap' = zero_grad(heap, Params)
  /\ train' = [train EXCEPT !.at = "backward",
                            !.stale = \E i \in Range(Params) : heap[i].grad # 0]
  /\ last' = [op |-> "zero_grad", kind |-> "none", n0 |-> Len(heap),
              err |-> "", made |-> 0]
  /\ UNCHANGED <<pc, root, topo, idx, called, pre, passes>>

\* total_loss.backward(), up to its loop.
TrainBackward ==
  /\ train.at = "backward"
  /\ BackwardCall(train.loss, {{}, BinNodes(heap)})
  /\ train' = [train EXCEPT !.at = "update"]

\* Lines 34-35, once backward() has returned; then the next iteration.
TrainUpdate ==
  /\ train.at = "update" /\ pc = "idle"
  /\ heap' = Update(heap, Params)
  /\ train' = [train EXCEPT !.at = "forward", !.k = @ + 1]
  /\ last' = [op |-> "update", kind |-> "none", n0 |-> Len(heap),
              err |-> "", made |-> 0]
  /\ UNCHANGED <<pc, root, topo, idx, called, pre, passes>>

NextTrain ==
  \/ TrainForward
  \/ TrainPair
  \/ TrainZeroGrad
  \/ TrainBackward
  \/ BackwardStep
  \/ TrainUpdate

SpecTrain == InitTrain /\ [][NextTrain]_vars

RECURSIVE runRules(_, _, _, _)
\* for v in reversed(topo): v._backward(), for the positions hi down to lo of
\* topo: those above the middle first, then the others.
runRules(h0, tp, lo, hi) ==
  Let(h0, LAMBDA h :
    IF lo > hi THEN h
    ELSE IF lo = hi THEN localBackward(h, tp[lo])
    ELSE runRules(runRules(h, tp, (lo + hi) \div 2 + 1, hi),
                  tp, lo, (lo + hi) \div 2))

\* One whole r.backward() on h, with the iteration orders F.
RunBackward(h, F, r) ==
  Let(BuildTopo(h, F, r), LAMBDA tp :
    runRules([h EXCEPT ![r].grad = 1], tp, 1, Len(tp)))

\* The graph h built from fresh Values: the same data, every grad 0.
Fresh(h) == [i \in DOMAIN h |-> [h[i] EXCEPT !.grad = 0]]

\* ------------------------------------------------------------ the claims

\* C2: relu(a) has value 0 when a.data <= 0 and a.data when a.data > 0; after
\* o.backward() on o = relu(n), n = x*w + b, n has the grad of o when n.data > 0
\* and grad 0 when n.data <= 0; with x = 2, w = -3: b = 1 gives o.data = 0 and
\* grad 0 for x, w and b, and b = 10 gives o.data = 4, w.grad = 2, x.grad = -3,
\* b.grad = 1.
C2_Relu ==
  /\ \A v \in DOMAIN heap :
       heap[v].op = "ReLU" =>
         heap[v].data = IF heap[heap[v].a].data > 0
                        THEN heap[heap[v].a].data ELSE 0
  /\ PassReturned =>
       LET x == heap[1]
           w == heap[2]
           b == heap[3]
           n == heap[root].a
       IN /\ heap[root].grad = 1
          /\ heap[n].grad = IF heap[n].data > 0 THEN heap[root].grad ELSE 0
          /\ (x.data = 2 /\ w.data = -3 /\ b.data = 1) =>
               /\ heap[n].data = -5 /\ heap[root].data = 0
               /\ x.grad = 0 /\ w.grad = 0 /\ b.grad = 0
          /\ (x.data = 2 /\ w.data = -3 /\ b.data = 10) =>
               /\ heap[n].data = 4 /\ heap[root].data = 4
               /\ w.grad = 2 /\ x.grad = -3 /\ b.grad = 1

\* C2's case: the pass is over on the graph with x = 2, w = -3, b = 1, where
\* relu has cut the gradient.
C2_Witness ==
  /\ PassReturned
  /\ heap[1].data = 2 /\ heap[2].data = -3 /\ heap[3].data = 1
  /\ heap[root].op = "ReLU" /\ heap[root].data = 0 /\ heap[root].grad = 1
  /\ heap[heap[root].a].data < 0

\* C4: self ** other with a Value as exponent raises at the call, makes no
\* Value and leaves every existing Value as it was.
C4_PowByValueRaises ==
  [][PowByValue =>
       /\ pc' = "raised"
       /\ last'.err \in {"AssertionError", "TypeError"}
       /\ last'.made = 0
       /\ heap' = heap]_vars

\* C4's case: the call has been made, on a graph one of whose nodes has a grad.
C4_Witness ==
  /\ last.op = "pow" /\ last.kind = "node" /\ pc = "raised"
  /\ \E i \in DOMAIN heap : heap[i].grad # 0

\* C5 as the spec states it: every add or multiply with a str as second
\* operand raises TypeError, and no Value holds a str.
C5_StrOperandRaises ==
  (last.op \in {"add", "mul"} /\ last.kind = "str") =>
    /\ pc = "raised"
    /\ last.err = "TypeError"
    /\ \A i \in DOMAIN heap : heap[i].ty # "str"

\* What holds of the code for C5: add raises for every first operand, and
\* multiply raises exactly when the first operand is a float.
StrOperandRaisesForAddAndFloat ==
  (last.op \in {"add", "mul"} /\ last.kind = "str") =>
    \/ pc = "raised" /\ last.err = "TypeError" /\ Len(heap) = last.n0
    \/ /\ last.op = "mul" /\ pc = "idle"
       /\ heap[Len(heap)].ty = "str" /\ heap[heap[Len(heap)].a].ty = "int"

\* The operations of the public set, and the operand kinds C6 speaks of.
PublicOps == {"add", "mul", "pow", "relu", "neg", "sub", "div", "rdiv"}
NumericKinds == {"node", "num", "none"}

\* The Values one call makes: the result, one wrapper for a raw number, and
\* the Values of the operations it is derived from.
Allocated(op, kind) ==
  CASE op \in {"add", "mul"} -> IF kind = "node" THEN 1 ELSE 2
    [] op \in {"pow", "relu"} -> 1
    [] op = "neg" -> 2
    [] op = "sub" -> IF kind = "node" THEN 3 ELSE 2
    [] op = "div" -> 2
    [] op = "rdiv" -> 3

Constructing ==
  NewValue \/ Add \/ Mul \/ Pow \/ PowByValue \/ Relu \/ Neg \/ Sub \/ Div
    \/ RDiv

\* C7: a constructing operation leaves every existing Value as it was (data,
\* grad and operands), every Value it makes has grad 0, and a grad changes
\* only in a step of backward().
C7_ConstructionFrame ==
  [][/\ Constructing =>
          /\ \A i \in DOMAIN heap : i \in DOMAIN heap' /\ heap'[i] = heap[i]
          /\ \A i \in DOMAIN heap' \ DOMAIN heap : heap'[i].grad = 0
     /\ (\E i \in DOMAIN heap \cap DOMAIN heap' :
           heap'[i].grad # heap[i].grad) =>
          (pc = "backward" \/ pc' = "backward")]_vars

\* C7's case: an operation has made a Value from one that holds a grad.
C7_Witness ==
  /\ last.op \in PublicOps /\ last.err = "" /\ pc = "idle"
  /\ Len(heap) > last.n0
  /\ \E i \in 1..last.n0 : heap[i].grad # 0 /\ i \in heap[Len(heap)].prev

\* C3: model.zero_grad() leaves every parameter with grad 0 whatever it
\* held, changes no data and no operands, and a second zero_grad() changes
\* nothing.
C3_ZeroGrad ==
  [][TrainZeroGrad =>
       /\ \A j \in DOMAIN Params : heap'[Params[j]].grad = 0
       /\ DOMAIN heap' = DOMAIN heap
       /\ \A i \in DOMAIN heap :
            heap'[i].data = heap[i].data /\ heap'[i].prev = heap[i].prev
       /\ zero_grad(heap', Params) = heap']_vars

\* C3's case: zero_grad has run on parameters that held grads.
C3_Witness ==
  /\ train.at = "backward" /\ train.stale
  /\ \A j \in DOMAIN Params : heap[Params[j]].grad = 0

\* C10: when the parameters are about to be updated, in every iteration, the
\* grad of each parameter is the derivative of this iteration's total_loss
\* with respect to it, which is the grad one backward() gives on the same
\* graph built from fresh Values.
C10_TrainingGradients ==
  (train.at = "update" /\ pc = "idle") =>
    \A j \in DOMAIN Params :
      /\ heap[Params[j]].grad = Deriv(heap, train.loss, Params[j])
      /\ heap[Params[j]].grad
           = RunBackward(Fresh(heap), {}, train.loss)[Params[j]].grad

\* C10's case: a later iteration is about to update, zero_grad found grads
\* of the iteration before, and a parameter has a grad.
C10_Witness ==
  /\ train.at = "update" /\ pc = "idle" /\ train.k > 0 /\ train.stale
  /\ \E j \in DOMAIN Params : heap[Params[j]].grad # 0

====
